---- MODULE Spec2Model ----
(***************************************************************************)
(* Verification model of terraform-provider-supabase:                      *)
(*   - TokenManager (credential exchange and cache) and the storage bucket *)
(*     resource's makeStorageAPIRequest that uses it, as concurrent        *)
(*     goroutines (specifications Spec and SpecBucket);                    *)
(*   - the settings module's Create/Read/Update/Delete/ImportState         *)
(*     dispatch over the six sub-domains (specification SpecSettings);     *)
(*   - the helpers that map fields between the Terraform model and the     *)
(*     remote APIs, applied to bounded inputs (specification SpecFields);  *)
(*   - the storage bucket resource's Create/Read/Update/Delete against the *)
(*     Storage API (specification SpecBucketResource).                     *)
(***************************************************************************)
EXTENDS Integers, Sequences, FiniteSets, TLC

\* ------------------------------------------------------------------ bounds
MaxTime == 2
MaxCalls == 3
MaxRequests == 3

\* time.Hour, in clock ticks of thirty minutes
Hour == 2

\* the projects and the goroutines of the model
Projects == {1, 2}
Threads == {1, 2}

\* ------------------------------------------------------------ value model
EmptyString == <<>>
ServiceRoleSecret(p) == <<"service_role_jwt", p>>
AnonSecret(p) == <<"anon_jwt", p>>

\* a nil *ProjectTokens
NilTokens == [ServiceRoleKey |-> EmptyString, AnonKey |-> EmptyString, CachedAt |-> -1]

\* Go map operations on projectTokens (a function on the set of present keys)
MapDelete(m, k) == [x \in (DOMAIN m) \ {k} |-> m[x]]
MapPut(m, k, v) == [x \in (DOMAIN m) \cup {k} |-> IF x = k THEN v ELSE m[x]]

\* ------------------------------------------------------------------ state
VARIABLES
    projectTokens,  \* TokenManager.projectTokens: project -> ProjectTokens
    readers,        \* goroutines holding TokenManager.mutex for reading
    now,            \* the wall clock
    pc,             \* per goroutine: position in the running call
    th,             \* per goroutine: the running (or last finished) call
    calls,          \* number of top-level calls started
    mon,            \* per project: the calls made one after the other
    pendingInv,     \* per project: an invalidation returned, no get started since
    cacheTainted,   \* per project: entry stored by an exchange begun before an invalidation
    sop,            \* settings resource: the handler running or last run
    spc,            \* settings resource: position of the handler in its dispatch
    data,           \* settings resource: the handler's SettingsResourceModel
    state,          \* settings resource: the state Terraform tracks
    requests,       \* Management API requests sent by the handler, in order
    diags,          \* resp.Diagnostics of the handler
    fop,            \* field mapping: the helper applied last
    fin,            \* field mapping: what the helper was given
    fout,           \* field mapping: what the helper produced
    bop,            \* storage bucket resource: the handler run last
    tracked,        \* storage bucket resource: Terraform tracks the bucket
    remote,         \* storage bucket resource: the bucket exists on the Storage API
    exchanges,      \* storage bucket resource: the exchanges of the handler run last
    bdiags          \* storage bucket resource: resp.Diagnostics of that handler

tmVars == <<projectTokens, readers, now, pc, th, calls, mon, pendingInv, cacheTainted>>
settingsVars == <<sop, spc, data, state, requests, diags>>
fieldVars == <<fop, fin, fout>>
bucketVars == <<bop, tracked, remote, exchanges, bdiags>>
nonTmVars == <<settingsVars, fieldVars, bucketVars>>
nonSettingsVars == <<tmVars, fieldVars, bucketVars>>
nonBucketVars == <<tmVars, settingsVars, fieldVars>>
vars == <<projectTokens, readers, now, pc, th, calls, mon, pendingInv, cacheTainted,
          sop, spc, data, state, requests, diags, fop, fin, fout,
          bop, tracked, remote, exchanges, bdiags>>

\* ---------------------------------------------- Management key-listing API
KeyEntry(name, key) == [Name |-> name, ApiKey |-> key]

\* the answers V1GetProjectApiKeysWithResponse can give for project p
KeyResponses(p) ==
    { [err |-> TRUE,  status |-> 0,   hasJSON |-> FALSE, keys |-> <<>>],
      [err |-> FALSE, status |-> 500, hasJSON |-> FALSE, keys |-> <<>>],
      [err |-> FALSE, status |-> 200, hasJSON |-> FALSE, keys |-> <<>>],
      [err |-> FALSE, status |-> 200, hasJSON |-> TRUE,  keys |-> <<>>],
      [err |-> FALSE, status |-> 200, hasJSON |-> TRUE,
         keys |-> <<KeyEntry("anon", AnonSecret(p))>>],
      [err |-> FALSE, status |-> 200, hasJSON |-> TRUE,
         keys |-> <<KeyEntry("service_role", ServiceRoleSecret(p))>>],
      [err |-> FALSE, status |-> 200, hasJSON |-> TRUE,
         keys |-> <<KeyEntry("anon", AnonSecret(p)),
                    KeyEntry("service_role", ServiceRoleSecret(p))>>],
      [err |-> FALSE, status |-> 200, hasJSON |-> TRUE,
         keys |-> <<KeyEntry("service_role", ServiceRoleSecret(p)),
                    KeyEntry("anon", AnonSecret(p))>>] }

RECURSIVE ScanKeys_StopsAtAnon(_, _, _)
ScanKeys_StopsAtAnon(keys, i, tokens) ==
    IF i > Len(keys) THEN tokens
    ELSE IF keys[i].Name = "service_role"
    THEN ScanKeys_StopsAtAnon(keys, i + 1, [tokens EXCEPT !.ServiceRoleKey = keys[i].ApiKey])
    ELSE IF keys[i].Name = "anon"
    THEN [tokens EXCEPT !.AnonKey = keys[i].ApiKey]
    ELSE ScanKeys_StopsAtAnon(keys, i + 1, tokens)

\* the loop of fetchProjectTokens over the key list, from index i
RECURSIVE ScanKeys(_, _, _)
ScanKeys(keys, i, tokens) ==
    IF i > Len(keys) THEN tokens
    ELSE ScanKeys(keys, i + 1,
            IF keys[i].Name = "service_role"
            THEN [tokens EXCEPT !.ServiceRoleKey = keys[i].ApiKey]
            ELSE IF keys[i].Name = "anon"
            THEN [tokens EXCEPT !.AnonKey = keys[i].ApiKey]
            ELSE tokens)

fetchProjectTokens_KeepsEmptyKey(resp, t) ==
    IF resp.err \/ resp.status # 200 THEN [err |-> TRUE, tokens |-> NilTokens]
    ELSE [err |-> FALSE,
          tokens |-> ScanKeys(resp.keys, 1,
                       [ServiceRoleKey |-> EmptyString, AnonKey |-> EmptyString, CachedAt |-> t])]

\* TokenManager.fetchProjectTokens on the response resp, read at time t
fetchProjectTokens(resp, t) ==
    IF resp.err THEN [err |-> TRUE, tokens |-> NilTokens]
    ELSE IF resp.status # 200 THEN [err |-> TRUE, tokens |-> NilTokens]
    ELSE IF ~resp.hasJSON \/ Len(resp.keys) = 0 THEN [err |-> TRUE, tokens |-> NilTokens]
    ELSE LET tokens == ScanKeys(resp.keys, 1,
                         [ServiceRoleKey |-> EmptyString, AnonKey |-> EmptyString,
                          CachedAt |-> t])
         IN IF tokens.ServiceRoleKey = EmptyString
            THEN [err |-> TRUE, tokens |-> NilTokens]
            ELSE [err |-> FALSE, tokens |-> tokens]


\* ------------------------------------------------------------ TokenManager
\* the cache test of GetServiceRoleToken: exists && age < time.Hour && key != ""
IsFreshHit_NoAgeCheck(exists, tokens, t) ==
    exists /\ tokens.ServiceRoleKey # EmptyString

IsFreshHit(exists, tokens, t) ==
    exists /\ (t - tokens.CachedAt) < Hour /\ tokens.ServiceRoleKey # EmptyString

\* tm.projectTokens[projectRef] = tokens, under tm.mutex.Lock()
CacheTokens_Dropped(m, projectRef, tokens) == m

CacheTokens_OneSlot(m, projectRef, tokens) == MapPut(m, 1, tokens)

CacheTokens(m, projectRef, tokens) == MapPut(m, projectRef, tokens)

\* delete(tm.projectTokens, projectRef), under tm.mutex.Lock()
InvalidateProjectTokens_NoDelete(m, projectRef) == m

InvalidateProjectTokens_ClearsAll(m, projectRef) == <<>>

InvalidateProjectTokens(m, projectRef) == MapDelete(m, projectRef)

\* ------------------------------------------------ storage bucket resource
Methods == {"GET", "POST", "PUT", "DELETE"}
StorageStatuses == {200, 401, 403, 500}

\* httpResp.StatusCode < 200 || httpResp.StatusCode >= 300
IsFailure(status) == status < 200 \/ status >= 300

ShouldInvalidate_Only401(status) == status = 401

\* httpResp.StatusCode == 401 || httpResp.StatusCode == 403
ShouldInvalidate(status) == status = 401 \/ status = 403

\* ------------------------------------------------- calls of the goroutines
TokenCalls == { [op |-> "get", method |-> ""], [op |-> "invalidate", method |-> ""] }
RequestCalls == { [op |-> "request", method |-> m] : m \in Methods }

NoMon == [last |-> "none", ts |-> -1, pat |-> 0, a |-> 0, b |-> 0]

NoCall ==
    [op |-> "none", proj |-> 0, method |-> "", caller |-> "",
     tokens |-> NilTokens, res |-> "none", key |-> EmptyString,
     src |-> "none", age |-> -1, staleTs |-> -1, gex |-> 0, wrote |-> FALSE,
     badResp |-> FALSE, status |-> 0, nhttp |-> 0, failedAt |-> 0, evict |-> 0,
     solo |-> FALSE, win |-> FALSE, afterInv |-> FALSE, preInv |-> FALSE,
     servedTainted |-> FALSE, flightAtStart |-> FALSE]

\* goroutines inside a call on project p
ActiveOn(p) == { t \in Threads : pc[t] \notin {"idle", "done"} /\ th[t].proj = p }

\* entry of GetServiceRoleToken(projectRef): fresh locals
BeginGet(rec, p) ==
    [rec EXCEPT !.tokens = NilTokens, !.src = "none", !.age = -1, !.staleTs = -1,
                !.gex = 0, !.wrote = FALSE, !.badResp = FALSE, !.win = FALSE,
                !.afterInv = pendingInv[p], !.preInv = FALSE, !.servedTainted = FALSE]

\* a goroutine starts a call of one of the kinds
StartCall(t, kinds, limit) ==
    /\ pc[t] = "idle"
    /\ calls < limit
    /\ \E c \in kinds, p \in Projects :
         LET overlap == ActiveOn(p) # {}
             rec == [NoCall EXCEPT !.op = c.op, !.proj = p, !.method = c.method,
                        !.solo = ~overlap,
                        !.flightAtStart =
                            \E u \in Threads : pc[u] = "inflight" /\ th[u].proj # p]
         IN /\ pc' = [pc EXCEPT ![t] = IF c.op = "invalidate" THEN "inval" ELSE "rlock"]
            /\ th' = [u \in Threads |->
                        IF u = t THEN (IF c.op = "invalidate" THEN rec ELSE BeginGet(rec, p))
                        ELSE IF u \in ActiveOn(p) THEN [th[u] EXCEPT !.solo = FALSE]
                        ELSE th[u]]
            /\ mon' = IF overlap THEN [mon EXCEPT ![p] = NoMon] ELSE mon
            /\ pendingInv' = IF c.op = "invalidate" THEN pendingInv
                             ELSE [pendingInv EXCEPT ![p] = FALSE]
    /\ calls' = calls + 1
    /\ UNCHANGED <<projectTokens, readers, now, cacheTainted>>
    /\ UNCHANGED nonTmVars

\* a goroutine calls GetServiceRoleToken or InvalidateProjectTokens
Start(t) == StartCall(t, TokenCalls, MaxCalls)

\* a goroutine calls makeStorageAPIRequest, whose first step is
\* getAuthorizationHeader
StartRequest(t) == StartCall(t, RequestCalls, MaxRequests)

\* return of GetServiceRoleToken(rec.proj) with (key, nil) or ("", err); for
\* makeStorageAPIRequest this is the return of getAuthorizationHeader
GetReturn(t, rec, ok, key, ts) ==
    LET p == rec.proj
        m == mon[p]
        newMon ==
            IF ~rec.solo THEN NoMon
            ELSE IF m.pat = 2
                 THEN [last |-> "get", ts |-> IF ok THEN ts ELSE -1, pat |-> 3,
                       a |-> m.a, b |-> rec.gex]
            ELSE IF rec.gex >= 1
                 THEN [last |-> "get", ts |-> IF ok THEN ts ELSE -1, pat |-> 1,
                       a |-> rec.gex, b |-> 0]
            ELSE [last |-> "get", ts |-> IF ok THEN ts ELSE -1, pat |-> 0,
                  a |-> 0, b |-> 0]
    IN /\ mon' = [mon EXCEPT ![p] = newMon]
       /\ IF rec.op = "get"
          THEN /\ pc' = [pc EXCEPT ![t] = "done"]
               /\ th' = [th EXCEPT ![t] =
                           [rec EXCEPT !.res = IF ok THEN "ok" ELSE "err", !.key = key]]
          ELSE IF ok
          THEN /\ pc' = [pc EXCEPT ![t] = "http"]
               /\ th' = [th EXCEPT ![t] = [rec EXCEPT !.key = key]]
          ELSE /\ pc' = [pc EXCEPT ![t] = "done"]
               /\ th' = [th EXCEPT ![t] = [rec EXCEPT !.res = "err", !.key = key]]

\* tm.mutex.RLock()
GetRLock(t) ==
    /\ pc[t] = "rlock"
    /\ readers' = readers \cup {t}
    /\ pc' = [pc EXCEPT ![t] = "check"]
    /\ UNCHANGED <<projectTokens, now, th, calls, mon, pendingInv, cacheTainted>>
    /\ UNCHANGED nonTmVars

GetCheck_KeepsReadLock(t) ==
    /\ pc[t] = "check"
    /\ LET p == th[t].proj
           exists == p \in DOMAIN projectTokens
           tokens == IF exists THEN projectTokens[p] ELSE NilTokens
       IN IF IsFreshHit(exists, tokens, now)
          THEN /\ readers' = readers \ {t}
               /\ GetReturn(t, [th[t] EXCEPT !.src = "cache", !.tokens = tokens],
                            TRUE, tokens.ServiceRoleKey, tokens.CachedAt)
          ELSE /\ readers' = readers
               /\ pc' = [pc EXCEPT ![t] = "inflight"]
               /\ th' = [th EXCEPT ![t] = [@ EXCEPT !.src = "fetch", !.gex = @ + 1]]
               /\ UNCHANGED mon
    /\ UNCHANGED <<projectTokens, now, calls, pendingInv, cacheTainted>>
    /\ UNCHANGED nonTmVars

\* the cache lookup under the read lock: a hit returns the cached key (the
\* deferred RUnlock runs at the return); a miss releases the read lock and
\* sends the key-listing request of fetchProjectTokens
GetCheck(t) ==
    /\ pc[t] = "check"
    /\ LET p == th[t].proj
           exists == p \in DOMAIN projectTokens
           tokens == IF exists THEN projectTokens[p] ELSE NilTokens
           w == /\ th[t].solo
                /\ mon[p].last = "get"
                /\ mon[p].ts >= 0
                /\ (now - mon[p].ts) < Hour
       IN IF IsFreshHit(exists, tokens, now)
          THEN /\ readers' = readers \ {t}
               /\ GetReturn(t, [th[t] EXCEPT !.src = "cache", !.tokens = tokens,
                                   !.age = now - tokens.CachedAt, !.win = w,
                                   !.servedTainted = cacheTainted[p]],
                            TRUE, tokens.ServiceRoleKey, tokens.CachedAt)
          ELSE /\ readers' = readers \ {t}
               /\ pc' = [pc EXCEPT ![t] = "inflight"]
               /\ th' = [th EXCEPT ![t] =
                           [@ EXCEPT !.src = "fetch", !.gex = @ + 1, !.win = w,
                                     !.staleTs = IF exists THEN tokens.CachedAt ELSE -1]]
               /\ UNCHANGED mon
    /\ UNCHANGED <<projectTokens, now, calls, pendingInv, cacheTainted>>
    /\ UNCHANGED nonTmVars

\* the key-listing response as the claims classify it: non-200, empty, or no
\* key named service_role
BadKeyResponse(resp) ==
    \/ resp.err
    \/ resp.status # 200
    \/ ~resp.hasJSON
    \/ Len(resp.keys) = 0
    \/ ~\E i \in 1..Len(resp.keys) : resp.keys[i].Name = "service_role"

\* the key-listing response arrives; fetchProjectTokens returns
FetchRecv(t) ==
    /\ pc[t] = "inflight"
    /\ \E resp \in KeyResponses(th[t].proj) :
         LET r == fetchProjectTokens(resp, now)
             rec == [th[t] EXCEPT !.badResp = BadKeyResponse(resp)]
         IN IF r.err
            THEN GetReturn(t, rec, FALSE, EmptyString, -1)
            ELSE /\ pc' = [pc EXCEPT ![t] = "store"]
                 /\ th' = [th EXCEPT ![t] = [rec EXCEPT !.tokens = r.tokens]]
                 /\ UNCHANGED mon
    /\ UNCHANGED <<projectTokens, readers, now, calls, pendingInv, cacheTainted>>
    /\ UNCHANGED nonTmVars

\* tm.mutex.Lock(); tm.projectTokens[projectRef] = tokens; tm.mutex.Unlock();
\* return tokens.ServiceRoleKey, nil
Store(t) ==
    /\ pc[t] = "store"
    /\ readers = {}
    /\ LET p == th[t].proj
           tokens == th[t].tokens
       IN /\ projectTokens' = CacheTokens(projectTokens, p, tokens)
          /\ cacheTainted' = [cacheTainted EXCEPT ![p] = th[t].preInv]
          /\ GetReturn(t, [th[t] EXCEPT !.wrote = TRUE], TRUE,
                       tokens.ServiceRoleKey, tokens.CachedAt)
    /\ UNCHANGED <<readers, now, calls, pendingInv>>
    /\ UNCHANGED nonTmVars

\* httpClient.Do(req) and the handling of its response in
\* makeStorageAPIRequest
HttpDo(t) ==
    /\ pc[t] = "http"
    /\ \E status \in StorageStatuses :
         LET p == th[t].proj
             rec == [th[t] EXCEPT !.status = status, !.nhttp = @ + 1]
             failed == [rec EXCEPT !.failedAt = IF @ = 0 THEN rec.nhttp ELSE @]
         IN IF IsFailure(status)
            THEN IF ShouldInvalidate(status)
                 THEN /\ pc' = [pc EXCEPT ![t] = "inval"]
                      /\ th' = [th EXCEPT ![t] = failed]
                      /\ UNCHANGED pendingInv
                 ELSE /\ pc' = [pc EXCEPT ![t] = "done"]
                      /\ th' = [th EXCEPT ![t] = [failed EXCEPT !.res = "err"]]
                      /\ UNCHANGED pendingInv
            ELSE IF th[t].method \in {"POST", "PUT"}
                 THEN \* return r.getBucketViaStorageAPI(ctx, projectRef, id)
                      /\ pc' = [pc EXCEPT ![t] = "rlock"]
                      /\ th' = [th EXCEPT ![t] =
                                  BeginGet([rec EXCEPT !.caller = rec.method,
                                                       !.method = "GET"], p)]
                      /\ pendingInv' = [pendingInv EXCEPT ![p] = FALSE]
                 ELSE /\ pc' = [pc EXCEPT ![t] = "done"]
                      /\ th' = [th EXCEPT ![t] = [rec EXCEPT !.res = "ok"]]
                      /\ UNCHANGED pendingInv
    /\ UNCHANGED <<projectTokens, readers, now, calls, mon, cacheTainted>>
    /\ UNCHANGED nonTmVars

\* InvalidateProjectTokens(projectRef): Lock, delete, Unlock; called directly
\* or by makeStorageAPIRequest, which then returns the API error
Invalidate(t) ==
    /\ pc[t] = "inval"
    /\ readers = {}
    /\ LET p == th[t].proj
           m == mon[p]
           newMon ==
               IF ~th[t].solo THEN NoMon
               ELSE IF m.last = "get" /\ (m.pat = 1 \/ (m.pat = 3 /\ m.b >= 1))
                    THEN [last |-> "inv", ts |-> -1, pat |-> 2,
                          a |-> IF m.pat = 1 THEN m.a ELSE m.b, b |-> 0]
               ELSE [last |-> "inv", ts |-> -1, pat |-> 0, a |-> 0, b |-> 0]
       IN /\ projectTokens' = InvalidateProjectTokens(projectTokens, p)
          /\ mon' = [mon EXCEPT ![p] = newMon]
          /\ pendingInv' = [pendingInv EXCEPT ![p] = TRUE]
          /\ cacheTainted' = [cacheTainted EXCEPT ![p] = FALSE]
          /\ th' = [u \in Threads |->
                      IF u = t
                      THEN [th[t] EXCEPT !.evict = p,
                               !.res = IF th[t].op = "invalidate" THEN "ok" ELSE "err"]
                      ELSE IF pc[u] \in {"inflight", "store"} /\ th[u].proj = p
                      THEN [th[u] EXCEPT !.preInv = TRUE]
                      ELSE th[u]]
    /\ pc' = [pc EXCEPT ![t] = "done"]
    /\ UNCHANGED <<readers, now, calls>>
    /\ UNCHANGED nonTmVars

\* the caller has the result of its call
Finish(t) ==
    /\ pc[t] = "done"
    /\ pc' = [pc EXCEPT ![t] = "idle"]
    /\ th' = [th EXCEPT ![t] = NoCall]
    /\ UNCHANGED <<projectTokens, readers, now, calls, mon, pendingInv, cacheTainted>>
    /\ UNCHANGED nonTmVars

\* time passes
Tick ==
    /\ now < MaxTime
    /\ now' = now + 1
    /\ UNCHANGED <<projectTokens, readers, pc, th, calls, mon, pendingInv, cacheTainted>>
    /\ UNCHANGED nonTmVars

\* ------------------------------------------------------- settings resource
\* bound: responses of one operation that are not the answer the endpoint
\* gives on success
MaxFaults == 1

\* the sub-domains, in the order the handlers dispatch them
Order_NetworkFirst == <<"network", "database", "api", "auth", "storage", "pooler">>

Order == <<"database", "network", "api", "auth", "storage", "pooler">>
SubDomains == {Order[i] : i \in 1..Len(Order)}

\* a null types.String (project_ref, id)
NullString == 0

\* CIDR strings of the network sub-document, and what net.ParseCIDR,
\* ip.IsPrivate and ip.To4 make of them
Cidrs == {"8.8.8.0/24", "10.0.0.0/8", "2001:db8::/32", "fd00::/8", "not-a-cidr"}
ParseCIDRFails(c) == c \notin {"8.8.8.0/24", "10.0.0.0/8", "2001:db8::/32", "fd00::/8"}
IsPrivate(c) == c \in {"10.0.0.0/8", "fd00::/8"}
IsV4(c) == c \in {"8.8.8.0/24", "10.0.0.0/8"}
IsV6(c) == ~IsV4(c)

\* a nil *NetworkConfig, and the network sub-documents of the plans
NoNetwork == [DbAllowedCidrs |-> <<>>, DbAllowedCidrsV6 |-> <<>>]
NetworkPlans ==
    { [DbAllowedCidrs |-> <<"8.8.8.0/24">>, DbAllowedCidrsV6 |-> <<"2001:db8::/32">>],
      [DbAllowedCidrs |-> <<"8.8.8.0/24", "10.0.0.0/8">>, DbAllowedCidrsV6 |-> <<>>],
      [DbAllowedCidrs |-> <<>>, DbAllowedCidrsV6 |-> <<"not-a-cidr">>] }

\* the network restrictions a project can have at the Management API (the
\* JSON200.Config of a read)
NetworkConfigs ==
    { [DbAllowedCidrs |-> <<"8.8.8.0/24">>, DbAllowedCidrsV6 |-> <<"2001:db8::/32">>],
      [DbAllowedCidrs |-> <<>>, DbAllowedCidrsV6 |-> <<>>] }

\* SettingsResourceModel: present is the set of non-nil sub-documents
NoModel ==
    [exists |-> FALSE, ProjectRef |-> NullString, Id |-> NullString,
     present |-> {}, Network |-> NoNetwork]

\* a plan declares all six sub-documents or leaves one of them out
PresenceSets == {SubDomains} \cup { SubDomains \ {sd} : sd \in SubDomains }

\* the plans Terraform hands to Create and Update, their id still unknown
Plans ==
    { [exists |-> TRUE, ProjectRef |-> p, Id |-> NullString, present |-> S,
       Network |-> IF "network" \in S THEN n ELSE NoNetwork] :
        p \in Projects, S \in PresenceSets, n \in NetworkPlans }

\* status 0 stands for a transport error (err != nil)
UpdateStatuses == {0, 200, 201, 500}
ReadStatuses == {0, 200, 404, 406, 500}

\* the status each endpoint answers on success
ExpectedStatus(sd, kind) == IF sd = "network" /\ kind = "update" THEN 201 ELSE 200

Request(sd, kind, proj, status, body) ==
    [sd |-> sd, kind |-> kind, proj |-> proj, status |-> status, body |-> body]

ErrorDiagnostic(summary, sd) == [severity |-> "error", summary |-> summary, sd |-> sd]

HasError(ds) == \E i \in 1..Len(ds) : ds[i].severity = "error"

\* number of responses that are not the endpoint's success answer
Faults(reqs) ==
    Cardinality({ i \in 1..Len(reqs) : reqs[i].status # ExpectedStatus(reqs[i].sd, reqs[i].kind) })

\* the outcome of an Update*Config helper
Sent(req, ds) == [requests |-> <<req>>, diags |-> ds]
NotSent(ds) == [requests |-> <<>>, diags |-> ds]

UpdateDatabaseConfig(plan, status) ==
    LET req == Request("database", "update", plan.ProjectRef, status, <<>>)
    IN IF status = 0 THEN Sent(req, <<ErrorDiagnostic("Client Error", "database")>>)
       ELSE IF status # 200 THEN Sent(req, <<ErrorDiagnostic("Client Error", "database")>>)
       ELSE Sent(req, <<>>)

\* the validation loops of UpdateNetworkConfig: the first entry that fails
RECURSIVE FirstCidrError(_, _)
FirstCidrError(list, i) ==
    IF i > Len(list) THEN ""
    ELSE IF ParseCIDRFails(list[i]) THEN "Invalid CIDR"
    ELSE IF IsPrivate(list[i]) THEN "Private IP not allowed"
    ELSE FirstCidrError(list, i + 1)

UpdateNetworkConfig(plan, status) ==
    LET e4 == FirstCidrError(plan.Network.DbAllowedCidrs, 1)
        e6 == FirstCidrError(plan.Network.DbAllowedCidrsV6, 1)
        body == [DbAllowedCidrs |-> SelectSeq(plan.Network.DbAllowedCidrs, IsV4),
                 DbAllowedCidrsV6 |-> SelectSeq(plan.Network.DbAllowedCidrsV6, IsV6)]
        req == Request("network", "update", plan.ProjectRef, status, body)
    IN IF e4 # "" THEN NotSent(<<ErrorDiagnostic("Validation Error", "network")>>)
       ELSE IF e6 # "" THEN NotSent(<<ErrorDiagnostic("Validation Error", "network")>>)
       ELSE IF status = 0 THEN Sent(req, <<ErrorDiagnostic("Client Error", "network")>>)
       ELSE IF status # 201 THEN Sent(req, <<ErrorDiagnostic("Client Error", "network")>>)
       ELSE Sent(req, <<>>)

UpdateApiConfig(plan, status) ==
    LET req == Request("api", "update", plan.ProjectRef, status, <<>>)
    IN IF status = 0 THEN Sent(req, <<ErrorDiagnostic("Client Error", "api")>>)
       ELSE IF status # 200 THEN Sent(req, <<ErrorDiagnostic("Client Error", "api")>>)
       ELSE Sent(req, <<>>)

UpdateAuthConfig(plan, status) ==
    LET req == Request("auth", "update", plan.ProjectRef, status, <<>>)
    IN IF "auth" \notin plan.present THEN NotSent(<<>>)
       ELSE IF status = 0
       THEN Sent(req, <<ErrorDiagnostic("Error Updating Auth Config", "auth")>>)
       ELSE IF status # 200
       THEN Sent(req, <<ErrorDiagnostic("Error Updating Auth Config", "auth")>>)
       ELSE Sent(req, <<>>)

UpdateStorageConfig(plan, status) ==
    LET req == Request("storage", "update", plan.ProjectRef, status, <<>>)
    IN IF status = 0 THEN Sent(req, <<ErrorDiagnostic("Client Error", "storage")>>)
       ELSE IF status < 200 \/ status >= 300
       THEN Sent(req, <<ErrorDiagnostic("Client Error", "storage")>>)
       ELSE Sent(req, <<>>)

UpdatePoolerConfig(plan, status) ==
    LET req == Request("pooler", "update", plan.ProjectRef, status, <<>>)
    IN IF status = 0 THEN Sent(req, <<ErrorDiagnostic("Client Error", "pooler")>>)
       ELSE IF status < 200 \/ status >= 300
       THEN Sent(req, <<ErrorDiagnostic("Client Error", "pooler")>>)
       ELSE Sent(req, <<>>)

\* the outcome of a Read*Config helper: the model it leaves behind as well
ReadResult(req, ds, d) == [requests |-> <<req>>, diags |-> ds, data |-> d]

\* the Read*Config helpers that go by state.Id and take 404 and 406 for
\* "not configured"
ReadById(sd, st, status) ==
    LET req == Request(sd, "read", st.Id, status, <<>>)
    IN IF status = 0 THEN ReadResult(req, <<ErrorDiagnostic("Client Error", sd)>>, st)
       ELSE IF status \in {404, 406} THEN ReadResult(req, <<>>, st)
       ELSE IF status # 200 THEN ReadResult(req, <<ErrorDiagnostic("Client Error", sd)>>, st)
       ELSE ReadResult(req, <<>>, [st EXCEPT !.present = @ \cup {sd}])

ReadDatabaseConfig(st, status) == ReadById("database", st, status)

\* config is the JSON200.Config of the response
ReadNetworkConfig(st, status, config) ==
    LET r == ReadById("network", st, status)
    IN IF status = 200
       THEN [r EXCEPT !.data.Network =
                [DbAllowedCidrs |-> config.DbAllowedCidrs,
                 DbAllowedCidrsV6 |-> config.DbAllowedCidrsV6]]
       ELSE r

ReadApiConfig(st, status) == ReadById("api", st, status)

ReadAuthConfig(st, status) ==
    LET req == Request("auth", "read", st.ProjectRef, status, <<>>)
    IN IF status = 0
       THEN ReadResult(req, <<ErrorDiagnostic("Error Reading Auth Config", "auth")>>, st)
       ELSE IF status # 200
       THEN ReadResult(req, <<ErrorDiagnostic("Error Reading Auth Config", "auth")>>, st)
       ELSE ReadResult(req, <<>>, [st EXCEPT !.present = @ \cup {"auth"}])

ReadStorageConfig(st, status) == ReadById("storage", st, status)

ReadPoolerConfig(st, status) == ReadById("pooler", st, status)

UpdateConfig(sd, plan, status) ==
    CASE sd = "database" -> UpdateDatabaseConfig(plan, status)
      [] sd = "network"  -> UpdateNetworkConfig(plan, status)
      [] sd = "api"      -> UpdateApiConfig(plan, status)
      [] sd = "auth"     -> UpdateAuthConfig(plan, status)
      [] sd = "storage"  -> UpdateStorageConfig(plan, status)
      [] sd = "pooler"   -> UpdatePoolerConfig(plan, status)

ReadConfig(sd, st, status, config) ==
    CASE sd = "database" -> ReadDatabaseConfig(st, status)
      [] sd = "network"  -> ReadNetworkConfig(st, status, config)
      [] sd = "api"      -> ReadApiConfig(st, status)
      [] sd = "auth"     -> ReadAuthConfig(st, status)
      [] sd = "storage"  -> ReadStorageConfig(st, status)
      [] sd = "pooler"   -> ReadPoolerConfig(st, status)

Writers == {"Create", "Update"}
Readers == {"Read", "ImportState"}
Returning == Len(Order) + 1

\* a handler starts with the model Terraform hands it
Enter(op, model) ==
    /\ spc = 0
    /\ sop' = op
    /\ spc' = 1
    /\ data' = model
    /\ requests' = <<>>
    /\ diags' = <<>>
    /\ UNCHANGED state
    /\ UNCHANGED nonSettingsVars

\* SettingsResource.Create: req.Plan.Get
Create ==
    /\ ~state.exists
    /\ \E plan \in Plans : Enter("Create", plan)

\* SettingsResource.Update: req.Plan.Get; the plan's id is the state's
\* (UseStateForUnknown)
Update ==
    /\ state.exists
    /\ \E plan \in Plans : Enter("Update", [plan EXCEPT !.Id = state.Id])

\* SettingsResource.Read: req.State.Get
Read ==
    /\ state.exists
    /\ Enter("Read", state)

\* SettingsResource.ImportState: a model with the id and six empty
\* sub-documents
ImportState ==
    /\ ~state.exists
    /\ \E id \in Projects :
         Enter("ImportState",
               [exists |-> TRUE, ProjectRef |-> NullString, Id |-> id,
                present |-> SubDomains, Network |-> NoNetwork])

Delete_ResetsRemote ==
    /\ spc = 0
    /\ state.exists
    /\ sop' = "Delete"
    /\ spc' = 0
    /\ data' = NoModel
    /\ state' = NoModel
    /\ requests' = <<Request("database", "update", state.Id, 200, <<>>)>>
    /\ diags' = <<>>
    /\ UNCHANGED nonSettingsVars

\* SettingsResource.Delete: the handler does nothing; Terraform drops the
\* resource from its state
Delete ==
    /\ spc = 0
    /\ state.exists
    /\ sop' = "Delete"
    /\ spc' = 0
    /\ data' = NoModel
    /\ state' = NoModel
    /\ requests' = <<>>
    /\ diags' = <<>>
    /\ UNCHANGED nonSettingsVars

\* if data.X != nil (Create, Read, Update); ImportState calls every helper
ShouldDispatch_UntilError(op, d, sd) ==
    (op = "ImportState" \/ sd \in d.present) /\ ~HasError(diags)

ShouldDispatch_Always(op, d, sd) == TRUE

ShouldDispatch(op, d, sd) == op = "ImportState" \/ sd \in d.present

Dispatch_ShortCircuit ==
    /\ sop \in Writers \cup Readers
    /\ spc \in 1..Len(Order)
    /\ spc' = spc + 1
    /\ LET sd == Order[spc]
       IN IF ~ShouldDispatch(sop, data, sd) \/ HasError(diags)
          THEN UNCHANGED <<data, requests, diags>>
          ELSE \E status \in (IF sop \in Writers THEN UpdateStatuses ELSE ReadStatuses),
                  config \in NetworkConfigs :
                 LET r == IF sop \in Writers
                          THEN [requests |-> UpdateConfig(sd, data, status).requests,
                                diags |-> UpdateConfig(sd, data, status).diags,
                                data |-> data]
                          ELSE ReadConfig(sd, data, status, config)
                 IN /\ Faults(requests \o r.requests) <= MaxFaults
                    /\ requests' = requests \o r.requests
                    /\ diags' = diags \o r.diags
                    /\ data' = r.data
    /\ UNCHANGED <<sop, state>>
    /\ UNCHANGED nonSettingsVars

\* the next sub-domain of the handler: skipped when its sub-document is nil,
\* else its helper is called and its diagnostics are appended
Dispatch ==
    /\ sop \in Writers \cup Readers
    /\ spc \in 1..Len(Order)
    /\ spc' = spc + 1
    /\ LET sd == Order[spc]
       IN IF ~ShouldDispatch(sop, data, sd)
          THEN UNCHANGED <<data, requests, diags>>
          ELSE \E status \in (IF sop \in Writers THEN UpdateStatuses ELSE ReadStatuses),
                  config \in NetworkConfigs :
                 LET r == IF sop \in Writers
                          THEN [requests |-> UpdateConfig(sd, data, status).requests,
                                diags |-> UpdateConfig(sd, data, status).diags,
                                data |-> data]
                          ELSE ReadConfig(sd, data, status, config)
                 IN /\ Faults(requests \o r.requests) <= MaxFaults
                    /\ requests' = requests \o r.requests
                    /\ diags' = diags \o r.diags
                    /\ data' = r.data
    /\ UNCHANGED <<sop, state>>
    /\ UNCHANGED nonSettingsVars

Return_WritesOnError ==
    /\ sop \in Writers \cup Readers
    /\ spc = Returning
    /\ spc' = 0
    /\ data' = CASE sop = "Create" -> [data EXCEPT !.Id = data.ProjectRef]
                 [] sop = "Read" -> [data EXCEPT !.ProjectRef = data.Id]
                 [] OTHER -> data
    /\ state' = data'
    /\ UNCHANGED <<sop, requests, diags>>
    /\ UNCHANGED nonSettingsVars

\* the end of the handler: with an error diagnostic Create, Read and Update
\* return before resp.State.Set; ImportState sets the state it has read, and
\* Terraform imports it when the response carries no error
Return ==
    /\ sop \in Writers \cup Readers
    /\ spc = Returning
    /\ spc' = 0
    /\ IF sop # "ImportState" /\ HasError(diags)
       THEN UNCHANGED <<data, state>>
       ELSE /\ data' = CASE sop = "Create" -> [data EXCEPT !.Id = data.ProjectRef]
                         [] sop = "Read" -> [data EXCEPT !.ProjectRef = data.Id]
                         [] OTHER -> data
            /\ state' = IF HasError(diags) THEN state ELSE data'
    /\ UNCHANGED <<sop, requests, diags>>
    /\ UNCHANGED nonSettingsVars

\* before the resource is created or imported
InitSettings ==
    /\ sop = "none"
    /\ spc = 0
    /\ data = NoModel
    /\ state = NoModel
    /\ requests = <<>>
    /\ diags = <<>>

\* ------------------------------------------------------------ field mapping
\* framework values: a null types.String, types.Bool or types.Int64 holds the
\* zero value; a Go pointer is <<>> when nil and <<v>> when it points to v
StringNull == [IsNull |-> TRUE, Value |-> ""]
StringValue(s) == [IsNull |-> FALSE, Value |-> s]
BoolNull == [IsNull |-> TRUE, Value |-> FALSE]
BoolValue(b) == [IsNull |-> FALSE, Value |-> b]
Nil == <<>>
Ptr(v) == <<v>>

\* a helper is applied: its input and its result are recorded
\* (an action applies it inside a conjunction, so that TLC evaluates the
\* arguments anew at every step instead of once per action instance)
Apply(op, input, output) ==
    /\ fop' = op
    /\ fin' = input
    /\ fout' = output
    /\ UNCHANGED <<tmVars, settingsVars, bucketVars>>

\* --- auth sub-document: the write-only fields and the fields read back
ExternalProviderConfigs ==
    { [Enabled |-> e, ClientId |-> c, Secret |-> s] :
        e \in {BoolNull, BoolValue(TRUE)},
        c \in {StringNull, StringValue("client_id")},
        s \in {StringNull, StringValue("S")} }

\* the auth sub-documents of the plans
AuthPlans ==
    { [ExternalGithub |-> g, ExternalGithubEnabled |-> BoolNull,
       ExternalGithubClientId |-> StringNull, SmtpHost |-> h, SmtpPass |-> p] :
        g \in {Nil} \cup { Ptr(c) : c \in ExternalProviderConfigs },
        h \in {StringNull, StringValue("smtp.example.com")},
        p \in {StringNull, StringValue("P")} }

\* api.AuthConfigResponse: no secret and no smtp_pass in it
AuthResponses ==
    { [status |-> st, ExternalGithubEnabled |-> e, ExternalGithubClientId |-> c,
       SmtpHost |-> h] :
        st \in {200, 404, 500},
        e \in {Nil, Ptr(TRUE), Ptr(FALSE)},
        c \in {Nil, Ptr("remote_id")},
        h \in {Nil, Ptr("smtp.remote")} }

readExternalProvider_DropsSecret(existingConfig, enabled, clientId) ==
    IF existingConfig = Nil /\ (enabled = Nil \/ ~enabled[1]) THEN Nil
    ELSE Ptr([Enabled |-> IF enabled # Nil THEN BoolValue(enabled[1]) ELSE BoolNull,
              ClientId |-> IF clientId # Nil THEN StringValue(clientId[1]) ELSE StringNull,
              Secret |-> StringNull])

\* readExternalProvider of the provider package: a new config that keeps the
\* secret of the existing one
readExternalProvider(existingConfig, enabled, clientId) ==
    IF existingConfig = Nil /\ (enabled = Nil \/ ~enabled[1]) THEN Nil
    ELSE Ptr([Enabled |-> IF enabled # Nil THEN BoolValue(enabled[1]) ELSE BoolNull,
              ClientId |-> IF clientId # Nil THEN StringValue(clientId[1]) ELSE StringNull,
              Secret |-> IF existingConfig # Nil /\ ~existingConfig[1].Secret.IsNull
                         THEN existingConfig[1].Secret ELSE StringNull])

\* the field mapping of settings.ReadAuthConfig on state.Auth
ReadAuthFields(auth, resp) ==
    IF resp.status # 200 THEN auth
    ELSE [auth EXCEPT
            !.ExternalGithubEnabled =
                IF resp.ExternalGithubEnabled # Nil
                THEN BoolValue(resp.ExternalGithubEnabled[1]) ELSE @,
            !.ExternalGithubClientId =
                IF resp.ExternalGithubClientId # Nil
                THEN StringValue(resp.ExternalGithubClientId[1]) ELSE @]

\* the field mapping of the provider package's readAuthConfig on state.Auth
readAuthFields(auth, resp) ==
    IF resp.status # 200 THEN auth
    ELSE [auth EXCEPT
            !.SmtpHost = IF resp.SmtpHost # Nil THEN StringValue(resp.SmtpHost[1]) ELSE @,
            !.ExternalGithub =
                readExternalProvider(auth.ExternalGithub, resp.ExternalGithubEnabled,
                                     resp.ExternalGithubClientId)]

AuthOps == {"CreateAuth", "ReadAuthConfig", "readAuthConfig"}

\* Create with an auth sub-document: the plan becomes the state
CreateAuth ==
    \E plan \in AuthPlans : /\ Apply("CreateAuth", plan, plan)

\* a Read of the settings package after it
ReadAuth ==
    /\ fop \in AuthOps
    /\ \E resp \in AuthResponses : Apply("ReadAuthConfig", fin, ReadAuthFields(fout, resp))

\* a Read of the provider package's resource after it
ReadAuthLegacy ==
    /\ fop \in AuthOps
    /\ \E resp \in AuthResponses : Apply("readAuthConfig", fin, readAuthFields(fout, resp))

\* NewTokenManager: an empty cache
InitTM ==
    /\ projectTokens = <<>>
    /\ readers = {}
    /\ now = 0
    /\ pc = [t \in Threads |-> "idle"]
    /\ th = [t \in Threads |-> NoCall]
    /\ calls = 0
    /\ mon = [p \in Projects |-> NoMon]
    /\ pendingInv = [p \in Projects |-> FALSE]
    /\ cacheTainted = [p \in Projects |-> FALSE]

\* no helper has been applied yet
InitFields ==
    /\ fop = "none"
    /\ fin = <<>>
    /\ fout = <<>>

\* no bucket is tracked and none exists
InitBucketResource ==
    /\ bop = "none"
    /\ tracked = FALSE
    /\ remote = FALSE
    /\ exchanges = <<>>
    /\ bdiags = <<>>

Init == InitTM /\ InitSettings /\ InitFields /\ InitBucketResource

\* a finished call is handed to its caller before anything else happens (the
\* hand-over touches nothing shared)
NoneDone == \A t \in Threads : pc[t] # "done"

TokenStep(t) ==
    \/ GetRLock(t)
    \/ GetCheck(t)
    \/ FetchRecv(t)
    \/ Store(t)
    \/ Invalidate(t)

\* goroutines calling the TokenManager
Next ==
    \/ NoneDone /\ \E t \in Threads : Start(t)
    \/ NoneDone /\ \E t \in Threads : TokenStep(t)
    \/ NoneDone /\ Tick
    \/ \E t \in Threads : Finish(t)

Spec == Init /\ [][Next]_vars

\* the goroutine that applies the storage bucket resource
BucketThreads == {1}

\* one goroutine calling the storage bucket resource's makeStorageAPIRequest
NextBucket ==
    \/ NoneDone /\ \E t \in BucketThreads : StartRequest(t)
    \/ NoneDone /\ \E t \in BucketThreads : TokenStep(t)
    \/ NoneDone /\ \E t \in BucketThreads : HttpDo(t)
    \/ NoneDone /\ Tick
    \/ \E t \in BucketThreads : Finish(t)

SpecBucket == Init /\ [][NextBucket]_vars

\* Terraform driving the settings resource, one operation at a time
NextSettings ==
    \/ Create
    \/ Update
    \/ Read
    \/ ImportState
    \/ Delete
    \/ Dispatch
    \/ Return

SpecSettings == Init /\ [][NextSettings]_vars

\* --- network sub-document: null and empty lists
\* a []types.String: nil (a null list in Terraform) or a slice
ListNull == [IsNull |-> TRUE, Elems |-> <<>>]
ListOf(s) == [IsNull |-> FALSE, Elems |-> s]

\* state.Network before a read
NetworkDocs ==
    { [DbAllowedCidrs |-> a, DbAllowedCidrsV6 |-> b] :
        a \in {ListNull, ListOf(<<>>), ListOf(<<"8.8.8.0/24">>)},
        b \in {ListNull, ListOf(<<>>), ListOf(<<"2001:db8::/32">>)} }

\* JSON200.Config of the network restrictions read: each field missing, empty
\* or with an entry
RemoteNetworkConfigs ==
    { [DbAllowedCidrs |-> a, DbAllowedCidrsV6 |-> b] :
        a \in {Nil, Ptr(<<>>), Ptr(<<"8.8.8.0/24">>)},
        b \in {Nil, Ptr(<<>>), Ptr(<<"2001:db8::/32">>)} }

\* ReadNetworkConfig on state.Network: each list is rebuilt from the response
ReadNetworkLists(network, status, config) ==
    IF status \in {404, 406} THEN network
    ELSE IF status # 200 THEN network
    ELSE [DbAllowedCidrs |->
             IF config.DbAllowedCidrs # Nil THEN ListOf(config.DbAllowedCidrs[1])
             ELSE ListNull,
          DbAllowedCidrsV6 |->
             IF config.DbAllowedCidrsV6 # Nil THEN ListOf(config.DbAllowedCidrsV6[1])
             ELSE ListNull]

ApplyReadNetwork ==
    \E network \in NetworkDocs, status \in {200, 404, 500}, config \in RemoteNetworkConfigs :
        /\ Apply("ReadNetworkConfig",
                 [network |-> network, status |-> status, config |-> config],
                 ReadNetworkLists(network, status, config))

\* --- storage bucket: updateDataFromBucket
Int64Null == [IsNull |-> TRUE, Value |-> 0]
Int64Value(n) == [IsNull |-> FALSE, Value |-> n]

MimeLists == {<<>>, <<"image/*">>, <<"text/plain", "image/*">>}

\* the model before the call: the plan (Create, Update) or the prior state (Read)
BucketModels ==
    { [Id |-> StringNull, FileSizeLimit |-> f, AllowedMimeTypes |-> l] :
        f \in {Int64Null, Int64Value(1)},
        l \in {ListNull} \cup {ListOf(s) : s \in MimeLists} }

\* the decoded StorageBucket; a nil []string is ListNull
StorageBuckets ==
    { [Id |-> "b", FileSizeLimit |-> f, AllowedMimeTypes |-> l] :
        f \in {Nil, Ptr(1), Ptr(2)},
        l \in {ListNull} \cup {ListOf(s) : s \in MimeLists} }

updateDataFromBucket_AlwaysEmpty(bdata, bucket) ==
    [Id |-> StringValue(bucket.Id),
     FileSizeLimit |->
        IF bucket.FileSizeLimit # Nil THEN Int64Value(bucket.FileSizeLimit[1])
        ELSE Int64Null,
     AllowedMimeTypes |->
        IF ~bucket.AllowedMimeTypes.IsNull /\ Len(bucket.AllowedMimeTypes.Elems) > 0
        THEN ListOf(bucket.AllowedMimeTypes.Elems)
        ELSE ListOf(<<>>)]

updateDataFromBucket(bdata, bucket) ==
    [Id |-> StringValue(bucket.Id),
     FileSizeLimit |->
        IF bucket.FileSizeLimit # Nil THEN Int64Value(bucket.FileSizeLimit[1])
        ELSE Int64Null,
     AllowedMimeTypes |->
        IF ~bucket.AllowedMimeTypes.IsNull /\ Len(bucket.AllowedMimeTypes.Elems) > 0
        THEN ListOf(bucket.AllowedMimeTypes.Elems)
        ELSE IF ~bdata.AllowedMimeTypes.IsNull THEN ListOf(<<>>)
        ELSE bdata.AllowedMimeTypes]

ApplyUpdateDataFromBucket ==
    \E bdata \in BucketModels, bucket \in StorageBuckets :
        /\ Apply("updateDataFromBucket", [data |-> bdata, bucket |-> bucket],
                 updateDataFromBucket(bdata, bucket))

\* --- update bodies of the scalar sub-documents
\* A sub-document is a function from attribute name to value; the kind of the
\* value (string, integer, boolean) plays no part in what is sent, so a declared
\* attribute holds StringValue("v").  Every attribute is Optional and none is
\* Computed, so a plan holds no unknown value when it is applied.
DatabaseFields ==
    {"effective_cache_size", "logical_decoding_work_mem", "maintenance_work_mem",
     "max_connections", "max_locks_per_transaction",
     "max_parallel_maintenance_workers", "max_parallel_workers",
     "max_parallel_workers_per_gather", "max_replication_slots",
     "max_slot_wal_keep_size", "max_standby_archive_delay",
     "max_standby_streaming_delay", "max_wal_senders", "max_wal_size",
     "max_worker_processes", "restart_database", "session_replication_role",
     "shared_buffers", "statement_timeout", "track_commit_timestamp",
     "wal_keep_size", "wal_sender_timeout", "work_mem"}

ApiFields == {"db_extra_search_path", "db_pool", "db_schema", "max_rows"}

\* the four attributes UpdateAuthConfig reads, and three of the others
AuthFields ==
    {"disable_signup", "jwt_exp", "external_github_enabled",
     "external_github_client_id", "smtp_host", "smtp_pass", "external_github_secret"}

PoolerFields == {"default_pool_size"}

FieldsOf(sd) ==
    CASE sd = "database" -> DatabaseFields
      [] sd = "api" -> ApiFields
      [] sd = "auth" -> AuthFields
      [] sd = "pooler" -> PoolerFields

\* sub-documents over a set of attributes: nothing declared, one attribute
\* declared, everything declared
DocsOver(fields) ==
    { [f \in fields |-> IF f \in declared THEN StringValue("v") ELSE StringNull] :
        declared \in {{}, fields} \cup {{g} : g \in fields} }

\* the body after the run of  if !plan.X.IsNull() { body.X = ... }  statements
\* over the attributes in sent: a function from the attributes that were set to
\* the values they were set to
BodyOf(doc, sent) ==
    [f \in {g \in sent : ~doc[g].IsNull} |-> doc[f].Value]

UpdateDatabaseBody(database) ==
    BodyOf(database,
           {"effective_cache_size", "logical_decoding_work_mem",
            "maintenance_work_mem", "max_connections", "statement_timeout",
            "shared_buffers", "work_mem", "restart_database"})

UpdateApiBody(apiDoc) ==
    BodyOf(apiDoc, {"db_extra_search_path", "db_schema", "db_pool", "max_rows"})

UpdateAuthBody(auth) ==
    BodyOf(auth, {"disable_signup", "jwt_exp", "external_github_enabled",
                  "external_github_client_id"})

UpdatePoolerBody(pooler) ==
    BodyOf(pooler, {"default_pool_size"})

UpdateBody(sd, doc) ==
    CASE sd = "database" -> UpdateDatabaseBody(doc)
      [] sd = "api" -> UpdateApiBody(doc)
      [] sd = "auth" -> UpdateAuthBody(doc)
      [] sd = "pooler" -> UpdatePoolerBody(doc)

ScalarSubDomains == {"database", "api", "auth", "pooler"}

ApplyUpdateBody ==
    \E sd \in ScalarSubDomains :
        \E doc \in DocsOver(FieldsOf(sd)) :
            /\ Apply("UpdateBody", [sd |-> sd, doc |-> doc], UpdateBody(sd, doc))

\* --- network sub-document: the body of the update
\* plan.Network of a write: each list undeclared, empty, or with entries of
\* either family
DeclaredCidrLists ==
    {<<>>, <<"8.8.8.0/24">>, <<"2001:db8::/32">>,
     <<"8.8.8.0/24", "2001:db8::/32">>, <<"10.0.0.0/8">>}

NetworkWritePlans ==
    { [DbAllowedCidrs |-> a, DbAllowedCidrsV6 |-> b] :
        a \in {ListNull} \cup {ListOf(s) : s \in DeclaredCidrLists},
        b \in {ListNull} \cup {ListOf(s) : s \in DeclaredCidrLists} }

\* UpdateNetworkConfig up to the request: the validation error, or the
\* api.NetworkRestrictionsRequest that is sent.  Both fields of the body start
\* as pointers to empty slices; ranging over a nil list runs no iteration.
UpdateNetworkBody(network) ==
    LET e4 == FirstCidrError(network.DbAllowedCidrs.Elems, 1)
        e6 == FirstCidrError(network.DbAllowedCidrsV6.Elems, 1)
    IN IF e4 # "" THEN [error |-> e4, body |-> Nil]
       ELSE IF e6 # "" THEN [error |-> e6, body |-> Nil]
       ELSE [error |-> "",
             body |-> Ptr([DbAllowedCidrs |->
                              Ptr(SelectSeq(network.DbAllowedCidrs.Elems, IsV4)),
                           DbAllowedCidrsV6 |->
                              Ptr(SelectSeq(network.DbAllowedCidrsV6.Elems, IsV6))])]

ApplyUpdateNetwork ==
    \E network \in NetworkWritePlans :
        /\ Apply("UpdateNetworkConfig", network, UpdateNetworkBody(network))

\* --- network sub-document: the validation diagnostic
\* lists with up to two entries that fail, in either order
FailingCidrLists ==
    {<<>>, <<"8.8.8.0/24">>, <<"8.8.8.0/24", "10.0.0.0/8", "not-a-cidr">>,
     <<"not-a-cidr", "10.0.0.0/8">>, <<"2001:db8::/32", "fd00::/8">>, <<"fd00::/8">>}

NoFailure == [msg |-> "", entry |-> ""]

\* one validation loop of UpdateNetworkConfig: the message and the entry of the
\* first return, or NoFailure when the loop runs to its end
RECURSIVE FirstCidrFailure(_, _)
FirstCidrFailure(list, i) ==
    IF i > Len(list) THEN NoFailure
    ELSE IF ParseCIDRFails(list[i]) THEN [msg |-> "Invalid CIDR: ", entry |-> list[i]]
    ELSE IF IsPrivate(list[i]) THEN [msg |-> "Private IP not allowed: ", entry |-> list[i]]
    ELSE FirstCidrFailure(list, i + 1)

ValidationError(f) ==
    <<[severity |-> "error", summary |-> "Validation Error", detail |-> <<f.msg, f.entry>>]>>

UpdateNetworkDiags_V6First(network) ==
    LET f4 == FirstCidrFailure(network.DbAllowedCidrs.Elems, 1)
        f6 == FirstCidrFailure(network.DbAllowedCidrsV6.Elems, 1)
    IN IF f6 # NoFailure THEN [diags |-> ValidationError(f6), sent |-> FALSE]
       ELSE IF f4 # NoFailure THEN [diags |-> ValidationError(f4), sent |-> FALSE]
       ELSE [diags |-> <<>>, sent |-> TRUE]

\* UpdateNetworkConfig up to the request: the diagnostics it returns from the
\* loops, and whether it goes on to send the request
UpdateNetworkDiags(network) ==
    LET f4 == FirstCidrFailure(network.DbAllowedCidrs.Elems, 1)
        f6 == FirstCidrFailure(network.DbAllowedCidrsV6.Elems, 1)
    IN IF f4 # NoFailure THEN [diags |-> ValidationError(f4), sent |-> FALSE]
       ELSE IF f6 # NoFailure THEN [diags |-> ValidationError(f6), sent |-> FALSE]
       ELSE [diags |-> <<>>, sent |-> TRUE]

ApplyValidateNetwork ==
    \E a \in {ListNull} \cup {ListOf(s) : s \in FailingCidrLists},
       b \in {ListNull} \cup {ListOf(s) : s \in FailingCidrLists} :
        LET network == [DbAllowedCidrs |-> a, DbAllowedCidrsV6 |-> b]
        IN /\ Apply("ValidateNetwork", network, UpdateNetworkDiags(network))

\* --- fetchProjectTokens over key lists in every order
\* the entries a key listing of project 1 can hold: the service_role key
\* (revealed, or with an empty api_key), the anon key and a key of another name
KeyPool ==
    {KeyEntry("service_role", ServiceRoleSecret(1)), KeyEntry("service_role", EmptyString),
     KeyEntry("anon", AnonSecret(1)), KeyEntry("publishable", <<"publishable_key", 1>>)}

\* the lists of one to three different entries of the pool, in every order
KeyLists ==
    {<<a>> : a \in KeyPool}
    \cup {<<a, b>> : <<a, b>> \in {p \in KeyPool \X KeyPool : p[1] # p[2]}}
    \cup {<<a, b, c>> : <<a, b, c>> \in
            {p \in KeyPool \X KeyPool \X KeyPool : p[1] # p[2] /\ p[1] # p[3] /\ p[2] # p[3]}}

ApplyFetchProjectTokens ==
    \E keys \in KeyLists :
        LET resp == [err |-> FALSE, status |-> 200, hasJSON |-> TRUE, keys |-> keys]
        IN /\ Apply("fetchProjectTokens", keys, fetchProjectTokens(resp, 0))

\* the helpers that map fields, applied to bounded inputs
NextFields ==
    \/ CreateAuth
    \/ ReadAuth
    \/ ReadAuthLegacy
    \/ ApplyReadNetwork
    \/ ApplyUpdateDataFromBucket
    \/ ApplyUpdateBody
    \/ ApplyUpdateNetwork
    \/ ApplyValidateNetwork
    \/ ApplyFetchProjectTokens

SpecFields == Init /\ [][NextFields]_vars

\* ---------------------------------------------------------------------------
\* The storage bucket resource against the Storage API
\* ---------------------------------------------------------------------------
\* An error text is the sequence of the pieces fmt.Errorf puts together; a
\* status code printed with %d is the piece ToString(status).
NoError == <<>>

\* strings.Contains(err.Error(), "404"), on the pieces of the text
Contains404(err) == \E i \in 1..Len(err) : err[i] = "404"

\* what getAuthorizationHeader gives: the header, or the error of the token
\* exchange (the key listing answered with a status other than 200, or gave no
\* service_role key)
AuthOutcomes ==
    { [ok |-> TRUE, err |-> NoError],
      [ok |-> FALSE,
       err |-> <<"failed to get service role token: ", "failed to fetch project tokens: ",
                 "API returned status ", ToString(500), ": ", "Internal Server Error">>],
      [ok |-> FALSE,
       err |-> <<"failed to get service role token: ", "failed to fetch project tokens: ",
                 "API returned status ", ToString(404), ": ", "Project not found">>],
      [ok |-> FALSE,
       err |-> <<"failed to get service role token: ", "failed to fetch project tokens: ",
                 "service_role key not found for project ", "p">>] }

\* the answers of the Storage API: status 0 stands for a transport error; the
\* body of an error answer is free text
BucketStatuses == {0, 200, 201, 401, 403, 404, 409, 500}
ErrorBodies == {<<"Internal Server Error">>, <<"upstream said ", "404">>}
BucketResponses ==
    { [status |-> s, body |-> IF IsFailure(s) /\ s # 0 THEN b ELSE <<>>] :
        s \in BucketStatuses, b \in ErrorBodies }

\* the answers the Storage API can give to a method, given whether the bucket
\* exists: a 2xx only when the method applies (POST on a missing bucket, the
\* others on an existing one), a 404 for GET, PUT and DELETE on a missing one,
\* a 409 for POST on an existing one
CanAnswer(method, resp, exists) ==
    CASE ~IsFailure(resp.status) -> IF method = "POST" THEN ~exists ELSE exists
      [] resp.status = 404 -> method # "POST" /\ ~exists
      [] resp.status = 409 -> method = "POST" /\ exists
      [] OTHER -> TRUE

\* one pass of makeStorageAPIRequest up to the status check
StorageExchange(method, auth, resp) ==
    IF ~auth.ok
    THEN [err |-> <<"failed to get authorization header: ">> \o auth.err, sent |-> <<>>]
    ELSE LET x == <<[method |-> method, status |-> resp.status, body |-> resp.body]>>
         IN IF resp.status = 0
            THEN [err |-> <<"request failed: ", "connection refused">>, sent |-> x]
            ELSE IF IsFailure(resp.status)
            THEN [err |-> <<"API error (status ", ToString(resp.status), "): ">> \o resp.body,
                  sent |-> x]
            ELSE [err |-> NoError, sent |-> x]

\* makeStorageAPIRequest: after a POST or a PUT that succeeded the bucket is
\* fetched with a second request (getBucketViaStorageAPI)
makeStorageAPIRequest(method, auth, resp, auth2, resp2) ==
    LET first == StorageExchange(method, auth, resp)
    IN IF first.err # NoError THEN first
       ELSE IF method \in {"POST", "PUT"}
       THEN LET second == StorageExchange("GET", auth2, resp2)
            IN [err |-> second.err, sent |-> first.sent \o second.sent]
       ELSE first

\* the bucket on the Storage API after the exchanges: a POST answered 2xx
\* creates it, a DELETE answered 2xx removes it
RECURSIVE RemoteAfter(_, _)
RemoteAfter(exists, xs) ==
    IF xs = <<>> THEN exists
    ELSE RemoteAfter(IF IsFailure(xs[1].status) THEN exists
                     ELSE IF xs[1].method = "POST" THEN TRUE
                     ELSE IF xs[1].method = "DELETE" THEN FALSE
                     ELSE exists,
                     Tail(xs))

\* resp.Diagnostics.AddError("Storage API Error", "Unable to <verb> storage bucket: <err>")
StorageApiError(verb, err) ==
    <<[severity |-> "error", summary |-> "Storage API Error",
       detail |-> <<"Unable to ", verb, " storage bucket: ">> \o err]>>

\* a handler of the resource: its request(s), then tr says whether the bucket
\* is tracked afterwards and ds are the diagnostics
Handle(op, r, tr, ds) ==
    /\ bop' = op
    /\ exchanges' = r.sent
    /\ remote' = RemoteAfter(remote, r.sent)
    /\ tracked' = tr
    /\ bdiags' = ds
    /\ UNCHANGED nonBucketVars

\* the inputs of a handler: the two authorization outcomes and the two answers
\* (the second pair is used by POST and PUT only)
Answers(method) ==
    { <<a, r, a2, r2>> \in AuthOutcomes \X BucketResponses \X AuthOutcomes \X BucketResponses :
        /\ CanAnswer(method, r, remote)
        /\ IF method \in {"POST", "PUT"} /\ a.ok /\ ~IsFailure(r.status)
           THEN CanAnswer("GET", r2, TRUE)
           ELSE a2 = a /\ r2 = r }

\* StorageBucketResource.Create
BucketCreate ==
    /\ ~tracked
    /\ \E in \in Answers("POST") :
         LET r == makeStorageAPIRequest("POST", in[1], in[2], in[3], in[4])
         IN IF r.err # NoError
            THEN Handle("Create", r, tracked, StorageApiError("create", r.err))
            ELSE Handle("Create", r, TRUE, <<>>)

\* StorageBucketResource.Read
BucketRead ==
    /\ tracked
    /\ \E in \in Answers("GET") :
         LET r == makeStorageAPIRequest("GET", in[1], in[2], in[3], in[4])
         IN IF r.err # NoError
            THEN IF Contains404(r.err)
                 THEN Handle("Read", r, FALSE, <<>>)
                 ELSE Handle("Read", r, tracked, StorageApiError("read", r.err))
            ELSE Handle("Read", r, TRUE, <<>>)

\* StorageBucketResource.Update
BucketUpdate ==
    /\ tracked
    /\ \E in \in Answers("PUT") :
         LET r == makeStorageAPIRequest("PUT", in[1], in[2], in[3], in[4])
         IN IF r.err # NoError
            THEN Handle("Update", r, tracked, StorageApiError("update", r.err))
            ELSE Handle("Update", r, TRUE, <<>>)

\* StorageBucketResource.Delete: without an error diagnostic Terraform drops
\* the resource from its state
BucketDelete ==
    /\ tracked
    /\ \E in \in Answers("DELETE") :
         LET r == makeStorageAPIRequest("DELETE", in[1], in[2], in[3], in[4])
         IN IF r.err # NoError /\ ~Contains404(r.err)
            THEN Handle("Delete", r, tracked, StorageApiError("delete", r.err))
            ELSE Handle("Delete", r, FALSE, <<>>)

\* the bucket is deleted outside Terraform
Vanish ==
    /\ remote
    /\ remote' = FALSE
    /\ UNCHANGED <<bop, tracked, exchanges, bdiags>>
    /\ UNCHANGED nonBucketVars

NextBucketResource ==
    \/ BucketCreate
    \/ BucketRead
    \/ BucketUpdate
    \/ BucketDelete
    \/ Vanish

SpecBucketResource == Init /\ [][NextBucketResource]_vars


\* ======================================================================
\* Claims on the TokenManager and the storage bucket resource
\* ======================================================================

\* C1: when GetServiceRoleToken(P) returned a secret fetched at time ts and the
\* next call on P is another GetServiceRoleToken(P) that looks the cache up
\* less than one hour after ts, with no InvalidateProjectTokens(P) and no other
\* call on P in between, the second call performs no exchange and is served
\* from the cache; no call performs more than one exchange.
C1_CacheFreshness ==
    \A t \in Threads :
        /\ th[t].gex <= 1
        /\ th[t].win => (th[t].gex = 0 /\ th[t].src = "cache")

C1_Witness ==
    \E t \in Threads :
        /\ pc[t] = "done" /\ th[t].op = "get" /\ th[t].res = "ok"
        /\ th[t].win /\ th[t].key = ServiceRoleSecret(th[t].proj)

\* C2: GetServiceRoleToken(P) on a cache without a fresh entry for P, then
\* InvalidateProjectTokens(P), then GetServiceRoleToken(P), made one after the
\* other with no other call on P in between, perform exactly two exchanges.
C2_InvalidateForcesRefetch ==
    \A p \in Projects : mon[p].pat = 3 => mon[p].a + mon[p].b = 2

C2_Witness ==
    \E p \in Projects : mon[p].pat = 3 /\ mon[p].a = 1 /\ mon[p].b = 1

\* C3: two GetServiceRoleToken(P) calls for the same project never have their
\* credential exchanges in flight at the same time (refresh-on-miss is
\* serialized per project).
C3_NoDuplicateConcurrentExchange ==
    \A t, u \in Threads :
        (t # u /\ pc[t] = "inflight" /\ pc[u] = "inflight")
            => th[t].proj # th[u].proj

\* C4: the first GetServiceRoleToken(P) that starts after an
\* InvalidateProjectTokens(P) has returned is never served from the cache a
\* secret whose exchange began before that invalidation.
C4_InvalidationEffective ==
    \A t \in Threads :
        (th[t].afterInv /\ th[t].src = "cache") => ~th[t].servedTainted

\* C5: a secret served from the cache is less than one hour old at the
\* lookup; when the lookup finds an entry one hour old or older, the call
\* performs an exchange and a secret it returns is the one it fetched then.
C5_Staleness ==
    \A t \in Threads :
        /\ th[t].src = "cache" => (th[t].age >= 0 /\ th[t].age < Hour)
        /\ th[t].staleTs >= 0 =>
             /\ th[t].src = "fetch" /\ th[t].gex = 1
             /\ (pc[t] = "done" /\ th[t].res = "ok") =>
                   /\ th[t].key = th[t].tokens.ServiceRoleKey
                   /\ th[t].key # EmptyString
                   /\ th[t].tokens.CachedAt >= th[t].staleTs + Hour

C5_Witness ==
    \E t \in Threads :
        /\ pc[t] = "done" /\ th[t].res = "ok" /\ th[t].staleTs >= 0
        /\ \E u \in Threads : pc[u] = "idle" /\ calls >= 2

\* C6: a makeStorageAPIRequest call deletes the cached tokens of its project
\* if and only if the Storage API answered 401 or 403; it then returns an
\* error, and after a failed response it sends no further request.
C6_AuthFailureHandling ==
    \A t \in Threads :
        th[t].op = "request" =>
            /\ pc[t] = "inval" => th[t].status \in {401, 403}
            /\ pc[t] = "done" =>
                 /\ (th[t].evict # 0) <=> (th[t].status \in {401, 403})
                 /\ th[t].evict # 0 =>
                      /\ th[t].evict = th[t].proj
                      /\ th[t].proj \notin DOMAIN projectTokens
                 /\ th[t].status \in {401, 403} => th[t].res = "err"
            /\ th[t].failedAt # 0 =>
                 /\ th[t].nhttp = th[t].failedAt
                 /\ pc[t] \in {"inval", "done"}

C6_Witness ==
    \E t \in Threads :
        /\ pc[t] = "done" /\ th[t].op = "request" /\ th[t].status = 403
        /\ th[t].evict = th[t].proj /\ th[t].res = "err" /\ th[t].nhttp = 1
        /\ th[t].key = ServiceRoleSecret(th[t].proj)

\* C7: when the key-listing response is non-200, empty or without a key named
\* service_role, the call returns an error after that one exchange and stores
\* nothing; with no other call on the project meanwhile, the cache entry of
\* the project is what the call found.
C7_FailedExchange ==
    \A t \in Threads :
        th[t].badResp =>
            /\ pc[t] = "done" /\ th[t].res = "err" /\ th[t].key = EmptyString
            /\ th[t].gex = 1 /\ ~th[t].wrote
            /\ th[t].solo =>
                 IF th[t].staleTs >= 0
                 THEN /\ th[t].proj \in DOMAIN projectTokens
                      /\ projectTokens[th[t].proj].CachedAt = th[t].staleTs
                 ELSE th[t].proj \notin DOMAIN projectTokens

C7_Witness ==
    \E t \in Threads :
        /\ pc[t] = "done" /\ th[t].badResp /\ th[t].solo /\ th[t].staleTs >= 0
        /\ th[t].proj \in DOMAIN projectTokens

\* C8: a goroutine whose credential exchange is in flight holds no lock of the
\* cache, so a GetServiceRoleToken(Q) for another project can take the read
\* lock and look the cache up meanwhile.
C8_UnrelatedNotSerialized ==
    \A t \in Threads :
        pc[t] = "inflight" =>
            /\ t \notin readers
            /\ \A u \in Threads :
                 (NoneDone /\ pc[u] \in {"rlock", "check"} /\ th[u].proj # th[t].proj)
                     => ENABLED TokenStep(u)

C8_Witness ==
    \E t, u \in Threads :
        /\ pc[t] = "inflight" /\ th[t].proj # th[u].proj
        /\ pc[u] = "done" /\ th[u].op = "get" /\ th[u].res = "ok"
        /\ th[u].src = "cache" /\ th[u].flightAtStart


\* ======================================================================
\* Claims on the settings resource
\* ======================================================================

\* the handler has made all its sub-domain calls, or has returned
AfterDispatch == spc = Returning \/ spc = 0

\* the requests a handler has sent to the endpoint of a sub-domain
RequestsTo(sd) == { i \in 1..Len(requests) : requests[i].sd = sd }

\* the helper of the sub-domain has run: its request was sent, or the
\* network helper refused the plan's lists
HelperRan(sd) ==
    \/ Cardinality(RequestsTo(sd)) = 1
    \/ /\ sd = "network"
       /\ \E i \in 1..Len(diags) :
            diags[i].sd = "network" /\ diags[i].summary = "Validation Error"

\* the auth update was answered 500, every other request that was sent got
\* the success answer of its endpoint, and the plan's network lists are valid
OnlyAuthFails ==
    /\ \E i \in 1..Len(requests) : requests[i].sd = "auth" /\ requests[i].status = 500
    /\ \A i \in 1..Len(requests) :
          requests[i].sd # "auth" =>
              requests[i].status = ExpectedStatus(requests[i].sd, requests[i].kind)
    /\ FirstCidrError(data.Network.DbAllowedCidrs, 1) = ""
    /\ FirstCidrError(data.Network.DbAllowedCidrsV6, 1) = ""

\* C9: when a settings Create or Update has made its calls, the helper of
\* every declared sub-domain has run, whichever of them failed; with all six
\* declared and only the auth update answered 500, there is exactly one error
\* diagnostic, for auth, and the update requests of the other five were sent
\* to the plan's project, storage and pooler after the failed auth request.
C9_PartialFailureIsolation ==
    (sop \in Writers /\ AfterDispatch) =>
        /\ \A sd \in data.present : HelperRan(sd)
        /\ (data.present = SubDomains /\ OnlyAuthFails) =>
              /\ Len(diags) = 1
              /\ diags[1].sd = "auth" /\ diags[1].severity = "error"
              /\ Len(requests) = Len(Order)
              /\ \A k \in 1..Len(Order) :
                    /\ requests[k].sd = Order[k]
                    /\ requests[k].kind = "update"
                    /\ requests[k].proj = data.ProjectRef

C9_Witness ==
    /\ sop = "Update" /\ spc = 0
    /\ data.present = SubDomains /\ OnlyAuthFails
    /\ Len(requests) = 6 /\ Len(diags) = 1
    /\ requests[5].sd = "storage" /\ requests[5].status = 200
    /\ requests[6].sd = "pooler" /\ requests[6].status = 200

\* C10: in Create, Update and Read no request goes to a sub-domain whose
\* sub-document is absent from the plan (or from the state, for Read), and
\* every sub-domain that is present has its helper run once the dispatch has
\* passed it, whichever other sub-domains are absent.
C10_AbsentSkipped ==
    sop \in {"Create", "Update", "Read"} =>
        /\ \A i \in 1..Len(requests) : requests[i].sd \in data.present
        /\ \A k \in 1..Len(Order) :
              (Order[k] \in data.present /\ (spc = 0 \/ spc > k)) => HelperRan(Order[k])

C10_Witness ==
    /\ sop = "Read" /\ spc = 0
    /\ data.present = SubDomains \ {"database"}
    /\ Len(requests) = 5 /\ diags = <<>>
    /\ \A i \in 1..5 : requests[i].sd = Order[i + 1] /\ requests[i].status = 200

\* C11: Delete sends no request, read or write, to any sub-domain's endpoint,
\* whatever operations came before it; the remote configuration, which only a
\* request can change, is what it was.
C11_DeleteIsNoOp ==
    sop = "Delete" => (requests = <<>> /\ diags = <<>>)

C11_Witness ==
    /\ sop = "Delete" /\ spc = 0
    /\ ~state.exists /\ requests = <<>>

\* ======================================================================
\* Claims on the field mapping
\* ======================================================================

\* C12: after a Create whose plan holds an external provider's secret or
\* smtp_pass, and any number of Reads after it whose responses carry no
\* secret, the state holds the same value for that field.
C12_WriteOnlyRetention ==
    fop \in AuthOps =>
        /\ (fin.ExternalGithub # Nil /\ ~fin.ExternalGithub[1].Secret.IsNull) =>
              /\ fout.ExternalGithub # Nil
              /\ fout.ExternalGithub[1].Secret = fin.ExternalGithub[1].Secret
        /\ ~fin.SmtpPass.IsNull => fout.SmtpPass = fin.SmtpPass

C12_Witness ==
    /\ fop = "readAuthConfig"
    /\ fin.ExternalGithub # Nil /\ fin.ExternalGithub[1].Secret = StringValue("S")
    /\ fin.SmtpPass = StringValue("P")
    /\ fout.ExternalGithub # Nil
    /\ fout.ExternalGithub[1].ClientId = StringValue("remote_id")
    /\ fout.ExternalGithub[1].Secret = StringValue("S")

\* the response has no element for the field: missing, or an empty list
NoElements(field) == field = Nil \/ field[1] = <<>>

\* C13: after ReadNetworkConfig got a 200 whose db_allowed_cidrs (or
\* db_allowed_cidrs_v6) has no elements, a list that was null is still null
\* and a list that was empty and non-null is still empty and non-null.
C13_AbsentVsEmptyNetwork ==
    (fop = "ReadNetworkConfig" /\ fin.status = 200) =>
        /\ NoElements(fin.config.DbAllowedCidrs) =>
              /\ fin.network.DbAllowedCidrs.IsNull => fout.DbAllowedCidrs.IsNull
              /\ fin.network.DbAllowedCidrs = ListOf(<<>>) => fout.DbAllowedCidrs = ListOf(<<>>)
        /\ NoElements(fin.config.DbAllowedCidrsV6) =>
              /\ fin.network.DbAllowedCidrsV6.IsNull => fout.DbAllowedCidrsV6.IsNull
              /\ fin.network.DbAllowedCidrsV6 = ListOf(<<>>) =>
                    fout.DbAllowedCidrsV6 = ListOf(<<>>)

\* C14: updateDataFromBucket, given a bucket with no MIME types (nil or empty),
\* leaves allowed_mime_types null when it was null and makes it the empty
\* non-null list when it was non-null; given a non-empty list it sets the field
\* to exactly that list, in the same order.
C14_AbsentVsEmptyMimeTypes ==
    fop = "updateDataFromBucket" =>
        IF fin.bucket.AllowedMimeTypes.Elems = <<>>
        THEN IF fin.data.AllowedMimeTypes.IsNull
             THEN fout.AllowedMimeTypes = ListNull
             ELSE fout.AllowedMimeTypes = ListOf(<<>>)
        ELSE fout.AllowedMimeTypes = ListOf(fin.bucket.AllowedMimeTypes.Elems)

C14_Witness ==
    /\ fop = "updateDataFromBucket"
    /\ fin.bucket.AllowedMimeTypes = ListNull
    /\ fin.data.AllowedMimeTypes = ListOf(<<"text/plain", "image/*">>)
    /\ fout.AllowedMimeTypes = ListOf(<<>>)

\* C15: in the database, api, auth and pooler updates, an attribute is in the
\* outgoing request body if and only if it is non-null in the plan's
\* sub-document (and then with the plan's value).
C15_OnlyDeclaredFieldsSent ==
    fop = "UpdateBody" =>
        \A f \in FieldsOf(fin.sd) :
            /\ f \in DOMAIN fout <=> ~fin.doc[f].IsNull
            /\ f \in DOMAIN fout => fout[f] = fin.doc[f].Value

\* C16: when the plan's network sub-document declares only one of
\* db_allowed_cidrs and db_allowed_cidrs_v6, the request that is sent leaves the
\* other field out (a nil pointer), it does not carry it as an empty list.
C16_UndeclaredListOmitted ==
    (fop = "UpdateNetworkConfig" /\ fout.body # Nil) =>
        /\ (fin.DbAllowedCidrs.IsNull /\ ~fin.DbAllowedCidrsV6.IsNull) =>
              fout.body[1].DbAllowedCidrs = Nil
        /\ (fin.DbAllowedCidrsV6.IsNull /\ ~fin.DbAllowedCidrs.IsNull) =>
              fout.body[1].DbAllowedCidrsV6 = Nil

\* the number of times c occurs in the list s
Occurrences(s, c) == Cardinality({i \in 1..Len(s) : s[i] = c})

\* C18: for a plan whose network entries are all valid and non-private, every
\* declared entry is in the request exactly once, the IPv4 entries in the v4
\* field and the IPv6 entries in the v6 field, whichever of the two lists it
\* was declared in.
C18_CidrPartitioning ==
    (fop = "UpdateNetworkConfig" /\ fout.error = "") =>
        LET declared == fin.DbAllowedCidrs.Elems \o fin.DbAllowedCidrsV6.Elems
            v4 == fout.body[1].DbAllowedCidrs[1]
            v6 == fout.body[1].DbAllowedCidrsV6[1]
        IN /\ \A c \in Cidrs : Occurrences(v4 \o v6, c) = Occurrences(declared, c)
           /\ \A i \in 1..Len(v4) : IsV4(v4[i])
           /\ \A i \in 1..Len(v6) : IsV6(v6[i])

\* ---------------------------------------------------------------------------
\* Claims on the settings resource: validation, reads and import
\* ---------------------------------------------------------------------------

\* the plan's network sub-document has an entry that does not parse or is private
PlanHasBadCidr ==
    /\ "network" \in data.present
    /\ \/ FirstCidrError(data.Network.DbAllowedCidrs, 1) # ""
       \/ FirstCidrError(data.Network.DbAllowedCidrsV6, 1) # ""

\* C17: when the plan of a Create or Update has a network entry that does not
\* parse or lies in a private range, no request is sent to any endpoint, the
\* endpoints of the other sub-domains of the plan included, and once the
\* network helper has run the validation error is reported.
C17_ValidationBeforeAnyRequest ==
    (sop \in Writers /\ PlanHasBadCidr) =>
        /\ requests = <<>>
        /\ AfterDispatch =>
              \E i \in 1..Len(diags) : diags[i].summary = "Validation Error"

\* C19: when the read endpoint of a sub-domain answers 404 or 406 during a Read
\* or an ImportState, the read of that sub-domain reports no error diagnostic
\* and the sub-document is absent from the state the operation leaves.
C19_NotConfiguredOnRead ==
    (sop \in Readers /\ spc = 0) =>
        \A i \in 1..Len(requests) :
            requests[i].status \in {404, 406} =>
                /\ ~\E j \in 1..Len(diags) :
                      diags[j].sd = requests[i].sd /\ diags[j].severity = "error"
                /\ requests[i].sd \notin state.present

\* C20: ImportState marks every one of the six sub-documents as present and
\* sends exactly one read per sub-domain, in the fixed order, whatever the
\* endpoints answer (200, 404, 406, 500 or no answer) and whether or not the
\* read of an earlier sub-domain failed; an import without error saves all six.
C20_ImportReadsAllSix ==
    sop = "ImportState" =>
        /\ data.present = SubDomains
        /\ Len(requests) = (IF spc = 0 THEN Len(Order) ELSE spc - 1)
        /\ \A k \in 1..Len(requests) :
              /\ requests[k].sd = Order[k]
              /\ requests[k].kind = "read"
        /\ (spc = 0 /\ ~HasError(diags)) => state.present = SubDomains

C20_Witness ==
    /\ sop = "ImportState" /\ spc = 0
    /\ Len(requests) = 6
    /\ requests[1].status = 500 /\ HasError(diags)
    /\ \A k \in 2..6 : requests[k].sd = Order[k] /\ requests[k].status = 200

\* the order the claim gives, and the place of a sub-domain in it
ClaimedOrder == <<"database", "network", "api", "auth", "storage", "pooler">>
Place(sd) == CHOOSE k \in 1..Len(ClaimedOrder) : ClaimedOrder[k] = sd

\* C21: within one Create, Update, Read or ImportState the requests go out one
\* at a time in the order database, network, api, auth, storage, pooler: every
\* request in the log has its answer before the next one is appended, the log
\* is strictly increasing in that order, and it holds requests only of
\* sub-domains the handler has already passed.
C21_SequentialSubDomains ==
    sop \in Writers \cup Readers =>
        /\ \A i, j \in 1..Len(requests) :
              i < j => Place(requests[i].sd) < Place(requests[j].sd)
        /\ \A i \in 1..Len(requests) :
              /\ requests[i].status \in UpdateStatuses \cup ReadStatuses
              /\ spc # 0 => Place(requests[i].sd) < spc

C21_Witness ==
    /\ sop = "Create" /\ spc = 0
    /\ Len(requests) = 6 /\ diags = <<>>
    /\ \A k \in 1..6 : requests[k].sd = ClaimedOrder[k] /\ requests[k].kind = "update"

\* ---------------------------------------------------------------------------
\* Claims on the storage bucket resource's handlers
\* ---------------------------------------------------------------------------

\* C22: a Read whose GET is answered 404 drops the bucket from the tracked
\* state and reports no error, a Delete whose DELETE is answered 404 succeeds
\* without error; any other non-2xx answer to Read or Delete is reported as an
\* error and the bucket stays tracked.
C22_BucketNotFoundHandling ==
    (bop \in {"Read", "Delete"} /\ exchanges # <<>>) =>
        /\ exchanges[1].status = 404 => (~tracked /\ bdiags = <<>>)
        /\ exchanges[1].status \in {401, 403, 500} => (tracked /\ bdiags # <<>>)

\* ---------------------------------------------------------------------------
\* Claims on the field mapping: validation of the network lists
\* ---------------------------------------------------------------------------

\* the entries in the order the claim gives: the v4 list, then the v6 list
InValidationOrder == fin.DbAllowedCidrs.Elems \o fin.DbAllowedCidrsV6.Elems
Fails(c) == ParseCIDRFails(c) \/ IsPrivate(c)
Failing == {i \in 1..Len(InValidationOrder) : Fails(InValidationOrder[i])}

\* C23: UpdateNetworkConfig validates the v4 list in declared order, then the
\* v6 list; with a failing entry it returns exactly one diagnostic, which names
\* the first failing entry with "Invalid CIDR" for a parse failure and "Private
\* IP not allowed" for a private address, and it sends no request; without a
\* failing entry it returns none from the validation and sends the request.
C23_FirstFailingCidrWins ==
    fop = "ValidateNetwork" =>
        IF Failing = {}
        THEN fout.diags = <<>> /\ fout.sent
        ELSE LET first == CHOOSE i \in Failing : \A j \in Failing : i <= j
                 c == InValidationOrder[first]
             IN /\ ~fout.sent
                /\ Len(fout.diags) = 1
                /\ fout.diags[1].summary = "Validation Error"
                /\ fout.diags[1].detail =
                      <<IF ParseCIDRFails(c) THEN "Invalid CIDR: "
                        ELSE "Private IP not allowed: ", c>>

C23_Witness ==
    /\ fop = "ValidateNetwork"
    /\ fin.DbAllowedCidrs = ListOf(<<"8.8.8.0/24", "10.0.0.0/8", "not-a-cidr">>)
    /\ fin.DbAllowedCidrsV6 = ListOf(<<"fd00::/8">>)
    /\ fout.diags[1].detail = <<"Private IP not allowed: ", "10.0.0.0/8">>
    /\ ~fout.sent

\* ---------------------------------------------------------------------------
\* Claims on the credential exchange over key lists
\* ---------------------------------------------------------------------------

\* the entries of the listing that carry a name
Named(name) == {i \in 1..Len(fin) : fin[i].Name = name}

\* the api_key of the only entry of that name, the empty string without one
SecretOf(name) ==
    IF Named(name) = {} THEN EmptyString ELSE fin[CHOOSE i \in Named(name) : TRUE].ApiKey

\* exactly one service_role entry and at most one anon entry
OneRoleEntry == Cardinality(Named("service_role")) = 1 /\ Cardinality(Named("anon")) <= 1

\* C24 as stated: for a key list with exactly one service_role entry and at
\* most one anon entry, fetchProjectTokens returns that service_role entry's
\* secret as the role secret and the anon entry's secret as the anon secret,
\* in every order of the list and with whatever other entries.
C24_OrderIndependent ==
    (fop = "fetchProjectTokens" /\ OneRoleEntry) =>
        /\ ~fout.err
        /\ fout.tokens.ServiceRoleKey = SecretOf("service_role")
        /\ fout.tokens.AnonKey = SecretOf("anon")

\* C24 amended: the same when the service_role entry's secret is not empty;
\* when it is empty fetchProjectTokens returns an error and no tokens, in
\* every order of the list.
C24_OrderIndependentNonEmpty ==
    (fop = "fetchProjectTokens" /\ OneRoleEntry) =>
        IF SecretOf("service_role") # EmptyString
        THEN /\ ~fout.err
             /\ fout.tokens.ServiceRoleKey = SecretOf("service_role")
             /\ fout.tokens.AnonKey = SecretOf("anon")
        ELSE fout.err /\ fout.tokens = NilTokens

C24_Witness ==
    /\ fop = "fetchProjectTokens"
    /\ fin = <<KeyEntry("anon", AnonSecret(1)), KeyEntry("publishable", <<"publishable_key", 1>>),
               KeyEntry("service_role", ServiceRoleSecret(1))>>
    /\ ~fout.err
    /\ fout.tokens.ServiceRoleKey = ServiceRoleSecret(1)
    /\ fout.tokens.AnonKey = AnonSecret(1)

\* ---------------------------------------------------------------------------
\* Claims on the settings resource: the tracked state
\* ---------------------------------------------------------------------------

\* C25: while a Create, Update or Read runs, and when it ends with at least one
\* error diagnostic, the tracked state is not written: it stays what it was
\* before the operation; the handler sends nothing to undo the requests of the
\* sub-domains that succeeded, its request log stays as it is.
C25_FailedOperationKeepsState ==
    [][ (sop' \in {"Create", "Update", "Read"} /\ (spc' # 0 \/ HasError(diags')))
            => /\ state' = state
               /\ (spc = Returning => requests' = requests) ]_vars

C25_Witness ==
    /\ sop = "Update" /\ spc = 0
    /\ HasError(diags)
    /\ \E i \in 1..Len(requests) : requests[i].kind = "update" /\ requests[i].status = 200
    /\ state.exists /\ state.present # data.present

\* C26: after every Create, Read or Update that ended without an error
\* diagnostic the tracked state's id equals its project_ref, whatever
\* operations came before, an Update whose plan changes project_ref included.
C26_IdEqualsProjectRef ==
    (sop \in {"Create", "Read", "Update"} /\ spc = 0 /\ ~HasError(diags)) =>
        state.Id = state.ProjectRef

\* C27: every read request that Read or ImportState sends, for each of the six
\* sub-domains, is addressed to the project held in the id of the handler's
\* model (the state's id in Read, the imported ID in ImportState).
C27_ReadsTargetTrackedProject ==
    sop \in Readers =>
        \A i \in 1..Len(requests) : requests[i].proj = data.Id

\* ---------------------------------------------------------------------------
\* Claims on the TokenManager: the projects apart
\* ---------------------------------------------------------------------------

\* the cached entry of project q, <<>> without one
Entry(m, q) == IF q \in DOMAIN m THEN <<m[q]>> ELSE <<>>

\* C28: a step that adds, changes or removes the cached entry of a project q
\* is the store of a GetServiceRoleToken(q) or the delete of an
\* InvalidateProjectTokens(q): no call on another project touches it, under
\* any interleaving.
C28_PerProjectIsolation ==
    [][ \A q \in Projects :
          Entry(projectTokens', q) # Entry(projectTokens, q) =>
              \E t \in Threads :
                  /\ th[t].proj = q
                  /\ pc[t] \in {"store", "inval"} /\ pc'[t] # pc[t]
                  /\ \A u \in Threads \ {t} : pc'[u] = pc[u] ]_vars

C28_Witness ==
    \E t \in Threads :
        /\ pc[t] = "done" /\ th[t].op = "invalidate" /\ th[t].proj = 1
        /\ 1 \notin DOMAIN projectTokens
        /\ 2 \in DOMAIN projectTokens
        /\ projectTokens[2].ServiceRoleKey = ServiceRoleSecret(2)

\* C29: a secret that GetServiceRoleToken(P) returns is not empty and is the
\* role secret that an exchange for project P fetched, never the secret of
\* another project (nor an anon secret); every cached entry holds the role
\* secret of the project it is filed under.
C29_NoCrossProjectCredential ==
    /\ \A t \in Threads :
          /\ (pc[t] = "done" /\ th[t].op = "get" /\ th[t].res = "ok") =>
                th[t].key # EmptyString
          /\ th[t].key # EmptyString => th[t].key = ServiceRoleSecret(th[t].proj)
    /\ \A p \in DOMAIN projectTokens :
          projectTokens[p].ServiceRoleKey = ServiceRoleSecret(p)

C29_Witness ==
    \E t \in Threads :
        /\ pc[t] = "done" /\ th[t].op = "get" /\ th[t].res = "ok"
        /\ th[t].proj = 1 /\ th[t].src = "cache"
        /\ th[t].key = ServiceRoleSecret(1)
        /\ 2 \in DOMAIN projectTokens

\* ---------------------------------------------------------------------------
\* Claims on the storage bucket resource: Create
\* ---------------------------------------------------------------------------

\* the handler run last had a POST answered 2xx: it created the bucket
CreatedByCall ==
    \E i \in 1..Len(exchanges) :
        exchanges[i].method = "POST" /\ ~IsFailure(exchanges[i].status)

\* C30: whenever the bucket Create reports an error, and so records no state,
\* that call created no bucket on the Storage API, also when the POST
\* succeeded and the GET of the new bucket that follows it failed.
C30_CreateAllOrNothing ==
    (bop = "Create" /\ bdiags # <<>>) => (~tracked /\ ~CreatedByCall)

====
